---------------------------- MODULE Spec2Model ----------------------------
(***************************************************************************)
(* dirsort (src/src/main.rs): walk the current directory, classify every  *)
(* regular file by extension and copy or move it into                     *)
(* <output_dir>/<subfolder>/<file name> on a pool of worker threads.      *)
(*                                                                         *)
(* Strings are sequences of one-character strings, so that extension(),   *)
(* to_lowercase(), trim(), split(',') and strip_prefix('.') are computed  *)
(* as the standard library computes them.  A path is the sequence of its  *)
(* components below the current directory; Option<T> is a sequence of     *)
(* length 0 (None) or 1 (Some).  The file system keeps inodes apart from  *)
(* the names that link to them, so that a file removed by one worker      *)
(* while another holds it open behaves as it does on the platform.        *)
(***************************************************************************)
EXTENDS Integers, Sequences, FiniteSets, TLC

----------------------------------------------------------------------------
(* Option<T> *)

None == << >>

Some(v) == << v >>

IsSome(o) == Len(o) = 1

Unwrap(o) == o[1]

----------------------------------------------------------------------------
(* str: to_lowercase, trim, split, strip_prefix, trim_start_matches *)

UpperChars == << "A", "B", "C", "D", "E", "F", "G", "H", "I", "J", "K", "L", "M",
                 "N", "O", "P", "Q", "R", "S", "T", "U", "V", "W", "X", "Y", "Z" >>

LowerChars == << "a", "b", "c", "d", "e", "f", "g", "h", "i", "j", "k", "l", "m",
                 "n", "o", "p", "q", "r", "s", "t", "u", "v", "w", "x", "y", "z" >>

\* upper-case letter -> its lower-case letter
LowerOf ==
    [c \in {UpperChars[i] : i \in 1..Len(UpperChars)} |->
        LowerChars[CHOOSE i \in 1..Len(UpperChars) : UpperChars[i] = c]]

char_to_lowercase(c) == IF c \in DOMAIN LowerOf THEN LowerOf[c] ELSE c

to_lowercase(s) == [i \in 1..Len(s) |-> char_to_lowercase(s[i])]

IsWhitespace(c) == c \in {" ", "\t", "\r", "\n"}

RECURSIVE trim_start(_)
trim_start(s) ==
    IF s # << >> /\ IsWhitespace(s[1]) THEN trim_start(Tail(s)) ELSE s

RECURSIVE trim_end(_)
trim_end(s) ==
    IF s # << >> /\ IsWhitespace(s[Len(s)])
    THEN trim_end(SubSeq(s, 1, Len(s) - 1))
    ELSE s

trim(s) == trim_end(trim_start(s))

starts_with(s, c) == s # << >> /\ s[1] = c

\* str::strip_prefix('.') as load_blacklist uses it: one leading dot goes.
strip_prefix_dot(s) == IF starts_with(s, ".") THEN Tail(s) ELSE s

\* str::trim_start_matches('.'): every leading dot goes.
RECURSIVE trim_start_matches_dot(_)
trim_start_matches_dot(s) ==
    IF starts_with(s, ".") THEN trim_start_matches_dot(Tail(s)) ELSE s

\* str::split(sep): the pieces between the separators, empty pieces kept.
RECURSIVE split(_, _)
split(s, sep) ==
    IF \E i \in 1..Len(s) : s[i] = sep
    THEN LET i == CHOOSE j \in 1..Len(s) :
                     s[j] = sep /\ \A k \in 1..(j - 1) : s[k] # sep
         IN  << SubSeq(s, 1, i - 1) >> \o split(SubSeq(s, i + 1, Len(s)), sep)
    ELSE << s >>

\* str::lines(): split at "\n", a trailing "\r" of a line dropped, no last
\* empty line for a text that ends in "\n" (or is empty).
lines(s) ==
    LET raw  == split(s, "\n")
        kept == IF raw[Len(raw)] = << >> THEN SubSeq(raw, 1, Len(raw) - 1) ELSE raw
    IN  [i \in 1..Len(kept) |->
            IF kept[i] # << >> /\ kept[i][Len(kept[i])] = "\r"
            THEN SubSeq(kept[i], 1, Len(kept[i]) - 1)
            ELSE kept[i]]

Range(f) == {f[i] : i \in DOMAIN f}

----------------------------------------------------------------------------
(* std::path::Path *)

\* The index of the last '.' of a file name, 0 when it has none.
LastDot(name) ==
    IF \E i \in 1..Len(name) : name[i] = "."
    THEN CHOOSE i \in 1..Len(name) :
            name[i] = "." /\ \A k \in (i + 1)..Len(name) : name[k] # "."
    ELSE 0

\* Path::extension() of a file name: the part after the last dot; None when
\* the name has no dot, starts with its only dot (".bashrc") or is "..".
extension(name) ==
    IF name = << ".", "." >> \/ LastDot(name) <= 1
    THEN None
    ELSE Some(SubSeq(name, LastDot(name) + 1, Len(name)))

\* Path::file_name() of a path of the walk: its last component.
file_name(path) == path[Len(path)]

\* Path::join of a directory and a name.  Joining the empty name adds no
\* component ("sorted".join("") names "sorted" itself).
join(dir, name) == IF name = << >> THEN dir ELSE Append(dir, name)

Prefixes(path) == {SubSeq(path, 1, n) : n \in 0..Len(path)}

----------------------------------------------------------------------------
(* The names the program and the modelled trees use *)

s_Images == << "I", "m", "a", "g", "e", "s" >>

s_Videos == << "V", "i", "d", "e", "o", "s" >>

s_Documents == << "D", "o", "c", "u", "m", "e", "n", "t", "s" >>

s_Audio == << "A", "u", "d", "i", "o" >>

s_Archives == << "A", "r", "c", "h", "i", "v", "e", "s" >>

s_sorted == << "s", "o", "r", "t", "e", "d" >>

s_unknown == << "u", "n", "k", "n", "o", "w", "n" >>

s_txt == << "t", "x", "t" >>

\* The document toml::from_str reads from DEFAULT_CATEGORY_CONFIG:
\* SorterConfig.categories, category name -> Vec of extensions.
DEFAULT_CATEGORY_CONFIG ==
    (s_Images :> << << "g", "i", "f" >>, << "i", "c", "o" >>,
                    << "j", "p", "e", "g" >>, << "j", "p", "g" >>,
                    << "j", "p", "g", "~" >>, << "p", "n", "g" >>,
                    << "p", "n", "g", "~" >>, << "w", "e", "b", "p" >> >>)
    @@ (s_Videos :> << << "m", "p", "4" >>, << "m", "k", "v" >>,
                       << "o", "g", "v" >>, << "w", "e", "b", "m" >> >>)
    @@ (s_Documents :> << << "p", "d", "f" >>, << "d", "o", "c", "x" >>,
                          << "d", "o", "c" >>, s_txt, << "m", "d" >> >>)
    @@ (s_Audio :> << << "m", "p", "3" >>, << "w", "a", "v" >>,
                      << "f", "l", "a", "c" >>, << "o", "g", "g" >> >>)
    @@ (s_Archives :> << << "z", "i", "p" >>, << "t", "a", "r" >>,
                         << "g", "z" >>, << "r", "a", "r" >> >>)

----------------------------------------------------------------------------
(* Bounds of the model *)

\* At most this many regular files lie under the current directory when the
\* program starts.
MaxFiles == 2

\* --threads ranges over 0..MaxThreads (and absent).
MaxThreads == 1

\* rayon::current_num_threads() when --threads is absent: the cores of the
\* machine.
DefaultThreads == 2

\* --max-depth ranges over 0..MaxDepthArg (and absent).
MaxDepthArg == 1

\* Files another process deletes while the program runs.
MaxEnvDeletes == 1

\* How many times the operator runs the program on the tree.
MaxRuns == 2

\* At most this many regular files lie under the current directory when the
\* first of several runs starts.
MaxRerunFiles == 1

\* At most this many regular files lie under the current directory when the
\* program is run with --config, --blacklist-file and the longer --blacklist
\* arguments.
MaxConfigFiles == 2

----------------------------------------------------------------------------
(* Inputs: the tree under the current directory and the command line *)

\* The regular files a modelled tree is drawn from, each with its content.
FileUniverse ==
    (<< << "a", ".", "t", "x", "t" >> >> :> << "A" >>)
    @@ (<< << "b", ".", "T", "X", "T" >> >> :> << "B" >>)
    @@ (<< << "c" >> >> :> << "C" >>)
    @@ (<< << "y", ".", "A", "B", "C" >> >> :> << "Y" >>)
    @@ (<< << "s", "u", "b" >>, << "a", ".", "t", "x", "t" >> >> :> << "D", "D" >>)
    @@ (<< s_sorted, s_Documents, << "a", ".", "t", "x", "t" >> >> :> << "O", "O" >>)
    @@ (<< s_sorted >> :> << "S" >>)

\* A tree: no regular file lies below another regular file.
Trees(max_files) ==
    {T \in SUBSET DOMAIN FileUniverse :
        /\ Cardinality(T) <= max_files
        /\ \A p, q \in T : p # q => p \notin Prefixes(q)}

\* --blacklist
BlacklistArgs == {None, Some(s_txt)}

\* struct Cli, the fields the engine reads.  --output-dir, --blacklist-file
\* and --config are absent; --index, --serve and --notify are off.
CliArgs ==
    [mv : BOOLEAN,
     verbose : BOOLEAN,
     threads : {None} \cup {Some(n) : n \in 0..MaxThreads},
     max_depth : {None} \cup {Some(d) : d \in 0..MaxDepthArg},
     blacklist : BlacklistArgs,
     blacklist_file : {None},
     config : {None},
     output_dir : {None}]

\* --blacklist, also with white space, capitals, empty tokens and dots
LongBlacklistArgs ==
    BlacklistArgs
    \cup {Some(<< " ", ".", "T", "X", "T", ",", ",", "c", " " >>),
          Some(<< ".", ",", ".", ".", "t", "x", "t" >>)}

\* --blacklist-file: absent, a file that cannot be read, and a file of a
\* '#' line, a blank line and the line ".Abc" ended by "\r\n".
BlacklistFileArgs ==
    {None,
     Some([ok |-> FALSE, content |-> << >>]),
     Some([ok |-> TRUE,
           content |-> << "#", "c", "\n", "\n", ".", "A", "b", "c", "\r", "\n" >>])}

s_Text == << "T", "e", "x", "t" >>

s_Misc == << "M", "i", "s", "c" >>

\* The documents of the modelled config files: one whose categories share no
\* extension (written with capitals and leading dots), one whose two
\* categories both list txt.
ConfigDocs ==
    { (s_Text :> << << ".", "T", "X", "T" >> >>)
        @@ (s_Misc :> << << ".", ".", "A", "b", "c" >> >>),
      (s_Documents :> << s_txt >>) @@ (s_Archives :> << s_txt >>) }

\* --config: absent, a file that cannot be read, a file whose text is not a
\* document of SorterConfig, and the files of ConfigDocs.
ConfigArgs ==
    {None,
     Some([readable |-> FALSE, doc |-> None]),
     Some([readable |-> TRUE, doc |-> None])}
    \cup {Some([readable |-> TRUE, doc |-> Some(d)]) : d \in ConfigDocs}

\* struct Cli of the runs that read a config file and a blacklist file.
ConfigCliArgs ==
    [mv : BOOLEAN,
     verbose : {TRUE},
     threads : {None, Some(0)},
     max_depth : {None},
     blacklist : LongBlacklistArgs,
     blacklist_file : BlacklistFileArgs,
     config : ConfigArgs,
     output_dir : {None}]

----------------------------------------------------------------------------
(* The pure functions of main.rs *)

\* One token of --blacklist or one line of the blacklist file: trimmed and
\* lowercased; kept unless empty (or, in the file, a '#' line); one leading
\* dot stripped.
blacklist_token(raw, is_line) ==
    LET ext == to_lowercase(trim(raw))
    IN  IF ext # << >> /\ ~(is_line /\ starts_with(ext, "#"))
        THEN {strip_prefix_dot(ext)}
        ELSE {}

\* load_blacklist.  argv.blacklist_file is None or Some([ok, content]): what
\* fs::read_to_string gives for the named file.
load_blacklist(argv) ==
    LET inline == IF IsSome(argv.blacklist)
                  THEN UNION {blacklist_token(tok, FALSE) :
                                 tok \in Range(split(Unwrap(argv.blacklist), ","))}
                  ELSE {}
        file   == IF IsSome(argv.blacklist_file)
                  THEN UNION {blacklist_token(line, TRUE) :
                                 line \in Range(lines(Unwrap(argv.blacklist_file).content))}
                  ELSE {}
    IN  IF IsSome(argv.blacklist_file) /\ ~Unwrap(argv.blacklist_file).ok
        THEN [ok |-> FALSE, set |-> {}]
        ELSE [ok |-> TRUE, set |-> inline \cup file]

\* is_blacklisted: the extension as it stands in the file name is looked up.
is_blacklisted(file_path, blacklist) ==
    LET ext == extension(file_name(file_path))
    IN  IsSome(ext) /\ Unwrap(ext) \in blacklist

\* A loader that takes the built-in categories, with a warning, also for a
\* malformed document.
load_categories_lenient(path) ==
    LET fallback == IsSome(path) /\ (~Unwrap(path).readable \/ Unwrap(path).doc = None)
        doc      == IF path = None \/ fallback
                    THEN DEFAULT_CATEGORY_CONFIG
                    ELSE Unwrap(Unwrap(path).doc)
    IN  [ok |-> TRUE, warned |-> fallback,
         cats |-> [k \in DOMAIN doc |->
                     [i \in 1..Len(doc[k]) |->
                         to_lowercase(trim_start_matches_dot(doc[k][i]))]]]

\* load_categories.  path is None or Some([readable, doc]): whether
\* fs::read_to_string succeeds, and the document toml::from_str parses from
\* the text (None: the text is malformed).
load_categories(path) ==
    LET fallback == IsSome(path) /\ ~Unwrap(path).readable
        doc      == IF path = None \/ fallback
                    THEN Some(DEFAULT_CATEGORY_CONFIG)
                    ELSE Unwrap(path).doc
    IN  IF doc = None
        THEN [ok |-> FALSE, warned |-> fallback, cats |-> << >>]
        ELSE [ok |-> TRUE, warned |-> fallback,
              cats |-> [k \in DOMAIN Unwrap(doc) |->
                          [i \in 1..Len(Unwrap(doc)[k]) |->
                              to_lowercase(trim_start_matches_dot(Unwrap(doc)[k][i]))]]]

\* The categories that hold an extension another category holds too.
Overlapping(cats) ==
    {c \in DOMAIN cats :
        \E d \in DOMAIN cats : d # c /\ Range(cats[c]) \cap Range(cats[d]) # {}}

\* The orders a HashMap may iterate in.  The order is unspecified and fixed
\* for the run; get_category shows only the relative order of categories that
\* hold a common extension, and the order is kept for those.
IterationOrders(cats) ==
    {o \in [1..Cardinality(Overlapping(cats)) -> Overlapping(cats)] :
        \A i, j \in DOMAIN o : i # j => o[i] # o[j]}

\* A lookup of the extension as it is spelled.
get_category_as_spelled(ext, categories) ==
    LET hits == {c \in DOMAIN categories.cats : ext \in Range(categories.cats[c])}
    IN  IF hits = {} THEN None
        ELSE IF Cardinality(hits) = 1 THEN Some(CHOOSE c \in hits : TRUE)
        ELSE Some(categories.order[
                 CHOOSE i \in DOMAIN categories.order :
                    /\ categories.order[i] \in hits
                    /\ \A j \in 1..(i - 1) : categories.order[j] \notin hits])

\* get_category: the first category, in iteration order, whose extensions
\* hold the lowercased extension.
get_category(ext, categories) ==
    LET hits == {c \in DOMAIN categories.cats :
                    to_lowercase(ext) \in Range(categories.cats[c])}
    IN  IF hits = {} THEN None
        ELSE IF Cardinality(hits) = 1 THEN Some(CHOOSE c \in hits : TRUE)
        ELSE Some(categories.order[
                 CHOOSE i \in DOMAIN categories.order :
                    /\ categories.order[i] \in hits
                    /\ \A j \in 1..(i - 1) : categories.order[j] \notin hits])

\* process_file, lines 347-358: the subfolder is the category, else the
\* extension as it stands in the file name, else "unknown".
subfolder_of(path, categories) ==
    LET ext == extension(file_name(path))
    IN  IF IsSome(ext)
        THEN LET category == get_category(Unwrap(ext), categories)
             IN  IF IsSome(category) THEN Unwrap(category) ELSE Unwrap(ext)
        ELSE s_unknown

target_dir_of(path, out_dir, categories) ==
    join(out_dir, subfolder_of(path, categories))

dest_path_of(path, out_dir, categories) ==
    join(target_dir_of(path, out_dir, categories), file_name(path))

\* main, line 434
out_dir_of(argv) ==
    IF IsSome(argv.output_dir) THEN Unwrap(argv.output_dir) ELSE << s_sorted >>

\* setup_thread_pool
setup_thread_pool(thread_count) ==
    IF IsSome(thread_count)
    THEN IF Unwrap(thread_count) = 0
         THEN [ok |-> FALSE, threads |-> 0]
         ELSE [ok |-> TRUE, threads |-> Unwrap(thread_count)]
    ELSE [ok |-> TRUE, threads |-> DefaultThreads]

\* WalkDir's depth of an entry: the root "." is 0, a file in it is 1.
depth_of(path) == Len(path)

\* A walk that takes no notice of the depth bound.
within_any_depth(path, max_depth) == TRUE

\* WalkDir::max_depth(d) yields the entries of depth at most d.
within_depth(path, max_depth) ==
    max_depth = None \/ depth_of(path) <= Unwrap(max_depth)

\* collect_files: the regular files the walk yields, and the directories
\* it counts.
collect_files(max_depth, fileset, dirset) ==
    [entries   |-> {p \in fileset : within_depth(p, max_depth)},
     dir_count |-> Cardinality({d \in dirset : within_depth(d, max_depth)})]

----------------------------------------------------------------------------
(* The file system *)

\* Path::exists
exists(path, fileset, dirset) == path \in fileset \/ path \in dirset

\* fs::create_dir_all: fails, creating nothing, when the path or one of its
\* ancestors is a regular file.
create_dir_all(path, fileset, dirset) ==
    IF Prefixes(path) \cap fileset = {}
    THEN [ok |-> TRUE, dirs |-> dirset \cup Prefixes(path)]
    ELSE [ok |-> FALSE, dirs |-> dirset]

\* write(2) of the bytes src at offset 0 of a file that holds old.
overwrite(src, old) == src \o SubSeq(old, Len(src) + 1, Len(old))

----------------------------------------------------------------------------
(* The state of one run *)

VARIABLES
    args,          \* struct Cli: the parsed command line
    files,         \* regular files: path -> inode
    data,          \* inode -> content, for the inodes linked or held open
    dirs,          \* the directories
    pc,            \* where main() is
    status,        \* how the process ended: "running", "Ok", "exit(1)", "panic"
    blacklist,     \* HashSet<String> of load_blacklist
    category_map,  \* the HashMap of load_categories, with its iteration order
    entries,       \* the Vec<DirEntry> of collect_files
    pending,       \* the entries par_iter has not handed to a worker yet
    calls,         \* entry -> the number of process_file calls made for it
    outcomes,      \* the outcomes produced so far, in order: [entry, result]
    wk,            \* worker thread -> [pc, entry, src, dst, err]
    skipped,       \* Arc<AtomicU64>
    errors,        \* Arc<Mutex<Vec<String>>>
    progress,      \* the ProgressBar's position
    summary,       \* what main() reports after the join
    warnings,      \* what LOGGER_INTERFACE.warning has been given, in order
    envDeleted,    \* the files another process has deleted
    walked,        \* Some(path -> content of the regular files when the walk ran)
    run,           \* which run of the program this is
    first_run      \* path -> content of the regular files after the first run

vars == << args, files, data, dirs, pc, status, blacklist, category_map,
           entries, pending, calls, outcomes, wk, skipped, errors, progress,
           summary, warnings, envDeleted, walked, run, first_run >>

histVars == << envDeleted, walked, run, first_run >>

fsVars == << files, data, dirs >>

accVars == << skipped, errors, progress >>

NoEntry == << >>

NoInode == << >>

Idle == [pc |-> "idle", entry |-> NoEntry, src |-> NoInode, dst |-> NoInode,
         err |-> ""]

Workers == DOMAIN wk

\* The results the processing of entry e has produced so far.
OutcomesOf(e) ==
    LET mine == SelectSeq(outcomes, LAMBDA o : o.entry = e)
    IN  [i \in 1..Len(mine) |-> mine[i].result]

\* path -> content of the regular files
Contents(fileMap, dataMap) == [p \in DOMAIN fileMap |-> dataMap[fileMap[p]]]

\* The inodes of a state: those a path links to and those a worker holds open.
LiveInodes(fileMap, workers) ==
    ( Range(fileMap)
      \cup {workers[w].src : w \in DOMAIN workers}
      \cup {workers[w].dst : w \in DOMAIN workers} ) \ {NoInode}

InitOf(argset, trees) ==
    /\ args \in argset
    /\ \E T \in trees :
        /\ files = [p \in T |-> << "old", p >>]
        /\ data = [i \in {<< "old", p >> : p \in T} |-> FileUniverse[i[2]]]
        /\ dirs = {<< >>} \cup UNION {Prefixes(p) \ {p} : p \in T}
    /\ pc = "setup_thread_pool"
    /\ status = "running"
    /\ blacklist = {}
    /\ category_map = [cats |-> << >>, order |-> << >>]
    /\ entries = {}
    /\ pending = {}
    /\ calls = << >>
    /\ outcomes = << >>
    /\ wk = << >>
    /\ skipped = 0
    /\ errors = << >>
    /\ progress = 0
    /\ summary = None
    /\ warnings = << >>
    /\ envDeleted = {}
    /\ walked = None
    /\ run = 1
    /\ first_run = << >>

InitWith(trees) == InitOf(CliArgs, trees)

Init == InitWith(Trees(MaxFiles))

\* The runs that read a config file and a blacklist file.
InitConfig == InitOf(ConfigCliArgs, Trees(MaxConfigFiles))

\* The runs that the operator may repeat start from the smaller trees.
InitRerun == InitWith(Trees(MaxRerunFiles))

----------------------------------------------------------------------------
(* main(), up to the dispatch *)

\* main, lines 405-408
SetupThreadPool ==
    /\ pc = "setup_thread_pool"
    /\ LET r == setup_thread_pool(args.threads)
       IN  IF r.ok
           THEN /\ wk' = [w \in 1..r.threads |-> Idle]
                /\ pc' = "get_blacklist"
                /\ UNCHANGED status
           ELSE /\ pc' = "exited"
                /\ status' = "exit(1)"
                /\ UNCHANGED wk
    /\ UNCHANGED << args, warnings, fsVars, blacklist, category_map, entries,
                    pending, calls, outcomes, accVars, summary, histVars >>

\* main, line 410: expect() panics when the blacklist file cannot be read
GetBlacklist ==
    /\ pc = "get_blacklist"
    /\ LET r == load_blacklist(args)
       IN  IF r.ok
           THEN /\ blacklist' = r.set
                /\ pc' = "collect_files"
                /\ UNCHANGED status
           ELSE /\ pc' = "exited"
                /\ status' = "panic"
                /\ UNCHANGED blacklist
    /\ UNCHANGED << args, warnings, fsVars, category_map, entries, pending,
                    calls, outcomes, wk, accVars, summary, histVars >>

\* main, lines 426-436: the walk; with no file found main returns Ok
CollectFiles ==
    /\ pc = "collect_files"
    /\ LET found == collect_files(args.max_depth, DOMAIN files, dirs).entries
       IN  /\ entries' = found
           /\ walked' = Some(Contents(files, data))
           /\ IF found = {}
              THEN /\ warnings' = Append(warnings, "No files found to process.")
                   /\ pc' = "exited"
                   /\ status' = "Ok"
              ELSE /\ pc' = "create_out_dir"
                   /\ UNCHANGED << status, warnings >>
    /\ UNCHANGED << args, fsVars, blacklist, category_map, pending, calls,
                    outcomes, wk, accVars, summary, envDeleted, run,
                    first_run >>

\* main, lines 438-448
CreateOutDir ==
    /\ pc = "create_out_dir"
    /\ LET r == create_dir_all(out_dir_of(args), DOMAIN files, dirs)
       IN  IF r.ok
           THEN /\ dirs' = r.dirs
                /\ pc' = "get_categories"
                /\ UNCHANGED status
           ELSE /\ pc' = "exited"
                /\ status' = "exit(1)"
                /\ UNCHANGED dirs
    /\ UNCHANGED << args, warnings, files, data, blacklist, category_map,
                    entries, pending, calls, outcomes, wk, accVars, summary,
                    histVars >>

\* main, line 461: expect() panics on a malformed document.  par_iter then
\* has every entry to hand out (line 470).
GetCategories ==
    /\ pc = "get_categories"
    /\ LET r == load_categories(args.config)
       IN  /\ warnings' = IF r.warned
                          THEN Append(warnings, "Failed to read config file")
                          ELSE warnings
           /\ IF r.ok
              THEN /\ \E o \in IterationOrders(r.cats) :
                        category_map' = [cats |-> r.cats, order |-> o]
                   /\ pending' = entries
                   /\ calls' = [e \in entries |-> 0]
                   /\ outcomes' = << >>
                   /\ pc' = "dispatch"
                   /\ UNCHANGED status
              ELSE /\ pc' = "exited"
                   /\ status' = "panic"
                   /\ UNCHANGED << category_map, pending, calls, outcomes >>
    /\ UNCHANGED << args, fsVars, blacklist, entries, wk, accVars, summary,
                    histVars >>

----------------------------------------------------------------------------
(* The dispatch: entries.par_iter().for_each(process_file; progress.inc) *)

\* A hand-out that leaves the entry with par_iter.
hand_out_keep(pend, e) == pend

\* par_iter splits the Vec among the workers: an entry handed out is no
\* longer there for another worker.
hand_out(pend, e) == pend \ {e}

\* A decrement in the place of the increment.
fetch_sub(c) == c - 1

\* A store of 1 in the place of the increment.
store_one(c) == 1

\* AtomicU64::fetch_add(1, Relaxed), line 335.  The counter never exceeds the
\* number of entries, far below 2^64.
fetch_add(c) == c + 1

\* A push that does not look at --verbose.
push_error_always(errs, verbose, msg) == Append(errs, msg)

\* process_file, lines 375-380: the message is pushed only when the re-parsed
\* command line has --verbose.
push_error(errs, verbose, msg) == IF verbose THEN Append(errs, msg) ELSE errs

\* An advance of the bar that counts the unit twice.
inc_twice(pos, delta) == pos + delta + delta

\* ProgressBar::inc(delta): the position advances by delta.
inc(pos, delta) == pos + delta

\* main, line 492
processed_count(total, skipped_count) == total - skipped_count

Source(w) == wk[w].entry

Dest(w) == dest_path_of(wk[w].entry, out_dir_of(args), category_map)

\* The closure result() returned Err(cause): lines 374-375.
Failed(w, cause) ==
    /\ wk' = [wk EXCEPT ![w].pc = "failed", ![w].err = cause,
                        ![w].src = NoInode, ![w].dst = NoInode]
    /\ outcomes' = Append(outcomes, [entry |-> Source(w), result |-> "Failed"])

\* The closure result() returned Ok(()).
Succeeded(w) ==
    /\ wk' = [wk EXCEPT ![w].pc = "progress",
                        ![w].src = NoInode, ![w].dst = NoInode]
    /\ outcomes' = Append(outcomes, [entry |-> Source(w), result |-> "Succeeded"])

\* A worker takes an entry from par_iter and calls process_file on it.  The
\* workers are interchangeable: the idle worker of lowest index takes.
Take(w, e) ==
    /\ pc = "dispatch"
    /\ wk[w].pc = "idle"
    /\ \A v \in 1..(w - 1) : wk[v].pc # "idle"
    /\ e \in pending
    /\ pending' = hand_out(pending, e)
    /\ calls' = [calls EXCEPT ![e] = @ + 1]
    /\ wk' = [wk EXCEPT ![w] = [Idle EXCEPT !.pc = "called", !.entry = e]]
    /\ UNCHANGED << args, warnings, fsVars, pc, status, blacklist,
                    category_map, entries, outcomes, accVars, summary,
                    histVars >>

\* process_file, lines 334-337
Skip(w) ==
    /\ wk[w].pc = "called"
    /\ is_blacklisted(Source(w), blacklist)
    /\ skipped' = fetch_add(skipped)
    /\ outcomes' = Append(outcomes, [entry |-> Source(w), result |-> "Skipped"])
    /\ wk' = [wk EXCEPT ![w].pc = "progress"]
    /\ UNCHANGED << args, warnings, fsVars, pc, status, blacklist,
                    category_map, entries, pending, calls, errors, progress,
                    summary, histVars >>

\* process_file, lines 340-360: the destination and create_dir_all
Classify(w) ==
    /\ wk[w].pc = "called"
    /\ ~is_blacklisted(Source(w), blacklist)
    /\ LET r == create_dir_all(
                    target_dir_of(Source(w), out_dir_of(args), category_map),
                    DOMAIN files, dirs)
       IN  IF r.ok
           THEN /\ dirs' = r.dirs
                /\ wk' = [wk EXCEPT ![w].pc =
                             IF args.mv THEN "move_file" ELSE "copy_file"]
                /\ UNCHANGED outcomes
           ELSE /\ Failed(w, "create_dir_all")
                /\ UNCHANGED dirs
    /\ UNCHANGED << args, warnings, files, data, pc, status, blacklist,
                    category_map, entries, pending, calls, accVars, summary,
                    histVars >>

\* move_file: rename(2), lines 92-94 and 363-366
MoveFile(w) ==
    /\ wk[w].pc = "move_file"
    /\ IF Source(w) \notin DOMAIN files
       THEN /\ Failed(w, "rename: source not found")
            /\ UNCHANGED << files, data >>
       ELSE IF Dest(w) \in dirs
       THEN /\ Failed(w, "rename: destination is a directory")
            /\ UNCHANGED << files, data >>
       ELSE /\ files' = IF Source(w) = Dest(w) THEN files
                        ELSE [q \in (DOMAIN files \ {Source(w)}) \cup {Dest(w)} |->
                                 IF q = Dest(w) THEN files[Source(w)] ELSE files[q]]
            /\ Succeeded(w)
            /\ data' = [i \in LiveInodes(files', wk') |-> data[i]]
    /\ UNCHANGED << args, warnings, dirs, pc, status, blacklist, category_map,
                    entries, pending, calls, accVars, summary, histVars >>

\* copy_file, line 206: Path::new(dest).exists()
CopyExists(w) ==
    /\ wk[w].pc = "copy_file"
    /\ wk' = [wk EXCEPT ![w].pc =
                 IF exists(Dest(w), DOMAIN files, dirs)
                 THEN "remove_file" ELSE "fs_copy"]
    /\ UNCHANGED << args, warnings, fsVars, pc, status, blacklist,
                    category_map, entries, pending, calls, outcomes, accVars,
                    summary, histVars >>

\* copy_file, line 207: remove_file(dest)?
CopyRemove(w) ==
    /\ wk[w].pc = "remove_file"
    /\ IF Dest(w) \in DOMAIN files
       THEN /\ files' = [q \in DOMAIN files \ {Dest(w)} |-> files[q]]
            /\ wk' = [wk EXCEPT ![w].pc = "fs_copy"]
            /\ data' = [i \in LiveInodes(files', wk') |-> data[i]]
            /\ UNCHANGED outcomes
       ELSE /\ Failed(w, "remove_file")
            /\ UNCHANGED << files, data >>
    /\ UNCHANGED << args, warnings, dirs, pc, status, blacklist, category_map,
                    entries, pending, calls, accVars, summary, histVars >>

\* copy_file, line 210, fs::copy's first half: the source is opened for
\* reading, the destination created or truncated for writing.
CopyOpen(w) ==
    /\ wk[w].pc = "fs_copy"
    /\ IF Source(w) \notin DOMAIN files
       THEN /\ Failed(w, "copy: source not found")
            /\ UNCHANGED << files, data >>
       ELSE IF Dest(w) \in dirs
       THEN /\ Failed(w, "copy: destination is a directory")
            /\ UNCHANGED << files, data >>
       ELSE LET made == << "new", run, Source(w) >>
                dst  == IF Dest(w) \in DOMAIN files THEN files[Dest(w)] ELSE made
            IN  /\ files' = [q \in DOMAIN files \cup {Dest(w)} |->
                                IF q = Dest(w) THEN dst ELSE files[q]]
                /\ wk' = [wk EXCEPT ![w].pc = "write",
                                    ![w].src = files[Source(w)],
                                    ![w].dst = dst]
                /\ data' = [i \in LiveInodes(files', wk') |->
                                IF i = dst THEN << >> ELSE data[i]]
                /\ UNCHANGED outcomes
    /\ UNCHANGED << args, warnings, dirs, pc, status, blacklist, category_map,
                    entries, pending, calls, accVars, summary, histVars >>

\* fs::copy's second half: the bytes of the source are written from offset 0
\* of the opened destination, and both are closed.
CopyWrite(w) ==
    /\ wk[w].pc = "write"
    /\ Succeeded(w)
    /\ data' = [i \in LiveInodes(files, wk') |->
                   IF i = wk[w].dst
                   THEN overwrite(data[wk[w].src], data[wk[w].dst])
                   ELSE data[i]]
    /\ UNCHANGED << args, warnings, files, dirs, pc, status, blacklist,
                    category_map, entries, pending, calls, accVars, summary,
                    histVars >>

\* process_file, lines 374-381
PushError(w) ==
    /\ wk[w].pc = "failed"
    /\ errors' = push_error(errors, args.verbose,
                            [path |-> Source(w), cause |-> wk[w].err])
    /\ wk' = [wk EXCEPT ![w].pc = "progress"]
    /\ UNCHANGED << args, warnings, fsVars, pc, status, blacklist,
                    category_map, entries, pending, calls, outcomes, skipped,
                    progress, summary, histVars >>

\* main, line 480: progress.lock().unwrap().inc(1); the worker is free again
ProgressInc(w) ==
    /\ wk[w].pc = "progress"
    /\ progress' = inc(progress, 1)
    /\ wk' = [wk EXCEPT ![w] = Idle]
    /\ UNCHANGED << args, warnings, fsVars, pc, status, blacklist,
                    category_map, entries, pending, calls, outcomes, skipped,
                    errors, summary, histVars >>

\* for_each returns when every entry has been handed out and every worker is
\* back: main, lines 481-483.
Join ==
    /\ pc = "dispatch"
    /\ pending = {}
    /\ \A w \in Workers : wk[w].pc = "idle"
    /\ pc' = "summary"
    /\ UNCHANGED << args, warnings, fsVars, status, blacklist, category_map,
                    entries, pending, calls, outcomes, wk, accVars, summary,
                    histVars >>

\* main, lines 491-532
Summary ==
    /\ pc = "summary"
    /\ summary' = Some([total     |-> Cardinality(entries),
                        skipped   |-> skipped,
                        processed |-> processed_count(Cardinality(entries), skipped),
                        errors    |-> errors])
    /\ pc' = "exited"
    /\ status' = "Ok"
    /\ UNCHANGED << args, warnings, fsVars, blacklist, category_map, entries,
                    pending, calls, outcomes, wk, accVars, histVars >>

\* Another process deletes a discovered file between the walk and the file's
\* transfer.
EnvDelete(p) ==
    /\ pc = "dispatch"
    /\ Cardinality(envDeleted) < MaxEnvDeletes
    /\ p \in pending
    /\ p \in DOMAIN files
    /\ files' = [q \in DOMAIN files \ {p} |-> files[q]]
    /\ data' = [i \in LiveInodes(files', wk) |-> data[i]]
    /\ envDeleted' = envDeleted \cup {p}
    /\ UNCHANGED << args, warnings, dirs, pc, status, blacklist, category_map,
                    entries, pending, calls, outcomes, wk, accVars, summary,
                    walked, run, first_run >>

\* The operator runs the program again, with the same command line, in the
\* tree the run has left.
Rerun ==
    /\ pc = "exited"
    /\ status = "Ok"
    /\ run < MaxRuns
    /\ run' = run + 1
    /\ first_run' = IF run = 1 THEN Contents(files, data) ELSE first_run
    /\ pc' = "setup_thread_pool"
    /\ status' = "running"
    /\ blacklist' = {}
    /\ category_map' = [cats |-> << >>, order |-> << >>]
    /\ entries' = {}
    /\ pending' = {}
    /\ calls' = << >>
    /\ outcomes' = << >>
    /\ wk' = << >>
    /\ skipped' = 0
    /\ errors' = << >>
    /\ progress' = 0
    /\ summary' = None
    /\ warnings' = << >>
    /\ walked' = None
    /\ UNCHANGED << args, fsVars, envDeleted >>

Next ==
    \/ SetupThreadPool
    \/ GetBlacklist
    \/ CollectFiles
    \/ CreateOutDir
    \/ GetCategories
    \/ \E w \in Workers : \E e \in pending : Take(w, e)
    \/ \E w \in Workers : Skip(w)
    \/ \E w \in Workers : Classify(w)
    \/ \E w \in Workers : MoveFile(w)
    \/ \E w \in Workers : CopyExists(w)
    \/ \E w \in Workers : CopyRemove(w)
    \/ \E w \in Workers : CopyOpen(w)
    \/ \E w \in Workers : CopyWrite(w)
    \/ \E w \in Workers : PushError(w)
    \/ \E w \in Workers : ProgressInc(w)
    \/ Join
    \/ Summary
    \/ \E p \in pending : EnvDelete(p)

Spec == Init /\ [][Next]_vars

NextRerun == Next \/ Rerun

SpecRerun == InitRerun /\ [][NextRerun]_vars

SpecConfig == InitConfig /\ [][Next]_vars

----------------------------------------------------------------------------
(* What the claims speak of *)

\* par_iter has its entries: the dispatch has begun.
DispatchBegun == pc = "dispatch" \/ pc = "summary" \/ summary # None

\* for_each has returned: every worker has finished.
Joined == pc = "summary" \/ summary # None

\* collect_files has returned.
Walked == walked # None

\* The content entry e had when the walk found it.
WalkedContent(e) == Unwrap(walked)[e]

WithResult(result) == {e \in entries : result \in Range(OutcomesOf(e))}

\* The place of entry e's outcome in the order of completion.
CompletedAt(e) == CHOOSE i \in DOMAIN outcomes : outcomes[i].entry = e

DestOf(e) == dest_path_of(e, out_dir_of(args), category_map)

Now == Contents(files, data)

----------------------------------------------------------------------------
(* C1 *)

\* C1: once the dispatch has begun, every discovered entry is handed to
\* process_file at most once and never to two workers at a time, it produces
\* at most one outcome, each outcome is Skipped, Succeeded or Failed; and when
\* for_each has returned (the summary is computed only then) every entry has
\* been handed out exactly once and has exactly one outcome.
C1_ExactlyOnce ==
    /\ \A e \in DOMAIN calls :
          /\ calls[e] <= 1
          /\ Len(OutcomesOf(e)) <= calls[e]
    /\ \A w, v \in Workers :
          (w # v /\ wk[w].entry # NoEntry) => wk[w].entry # wk[v].entry
    /\ \A i \in DOMAIN outcomes :
          /\ outcomes[i].entry \in entries
          /\ outcomes[i].result \in {"Skipped", "Succeeded", "Failed"}
    /\ Joined =>
          \A e \in entries : calls[e] = 1 /\ Len(OutcomesOf(e)) = 1

\* Two workers have processed two entries, one transfer succeeded, one
\* failed, and the summary is there.
C1_Witness ==
    /\ summary # None
    /\ Len(wk) >= 2
    /\ Cardinality(entries) >= 2
    /\ WithResult("Succeeded") # {}
    /\ WithResult("Failed") # {}

----------------------------------------------------------------------------
(* C2 *)

\* The messages of the error log name exactly the failed entries, once each.
OneMessagePerFailure ==
    /\ Len(errors) = Cardinality(WithResult("Failed"))
    /\ \A e \in WithResult("Failed") :
          Cardinality({i \in DOMAIN errors : errors[i].path = e}) = 1
    /\ \A i \in DOMAIN errors : errors[i].path \in WithResult("Failed")

----------------------------------------------------------------------------
(* C3 *)

\* C3: is_blacklisted is true exactly when the path has an extension whose
\* lowercased form is in the blacklist: an entry is skipped if and only if it
\* has an extension and the lowercased extension is blacklisted (with {txt}
\* both a.txt and b.TXT are skipped).
C3_SkippedIffLowercasedExtensionListed ==
    \A i \in DOMAIN outcomes :
        LET ext == extension(file_name(outcomes[i].entry))
        IN  (outcomes[i].result = "Skipped")
              <=> (IsSome(ext) /\ to_lowercase(Unwrap(ext)) \in blacklist)

----------------------------------------------------------------------------
(* C4 *)

\* C4: the skipped counter equals the number of entries skipped so far; after
\* all workers have finished it equals the number of blacklisted entries; the
\* summary's processed count is total minus skipped, which counts the failed
\* transfers as processed, and skipped + processed is the number of
\* discovered entries.
C4_SkipConservation ==
    /\ DispatchBegun => skipped = Cardinality(WithResult("Skipped"))
    /\ Joined =>
          skipped = Cardinality({e \in entries : is_blacklisted(e, blacklist)})
    /\ summary # None =>
          LET s == Unwrap(summary)
          IN  /\ s.total = Cardinality(entries)
              /\ s.skipped = Cardinality(WithResult("Skipped"))
              /\ s.processed = s.total - s.skipped
              /\ s.processed = Cardinality(WithResult("Succeeded"))
                                 + Cardinality(WithResult("Failed"))
              /\ s.skipped + s.processed = Cardinality(entries)

\* A run of two entries: one was skipped, the transfer of the other failed,
\* and the summary counts one skipped and one processed.
C4_Witness ==
    /\ summary # None
    /\ Cardinality(entries) = 2
    /\ Cardinality(WithResult("Failed")) = 1
    /\ Unwrap(summary).skipped = 1
    /\ Unwrap(summary).processed = 1

----------------------------------------------------------------------------
(* C5 *)

\* Two entries of the same file name, from two source directories neither of
\* which is the destination's, that the classification sends to one
\* destination path.
Collide(e1, e2) ==
    /\ e1 # e2
    /\ file_name(e1) = file_name(e2)
    /\ ~is_blacklisted(e1, blacklist)
    /\ ~is_blacklisted(e2, blacklist)
    /\ DestOf(e1) = DestOf(e2)
    /\ DestOf(e1) \notin {e1, e2}

\* C5: when two discovered entries with the same file name map to the same
\* subfolder then, once both transfers have completed, both are Succeeded and
\* the destination path holds the complete content of the source whose
\* transfer completed last (no file being deleted by another process).
C5_LastTransferWins ==
    (Joined /\ envDeleted = {}) =>
        \A e1, e2 \in entries :
            (Collide(e1, e2) /\ CompletedAt(e1) < CompletedAt(e2)) =>
                /\ OutcomesOf(e1) = << "Succeeded" >>
                /\ OutcomesOf(e2) = << "Succeeded" >>
                /\ DestOf(e2) \in DOMAIN files
                /\ Now[DestOf(e2)] = WalkedContent(e2)

----------------------------------------------------------------------------
(* C6 *)

\* C6: in copy mode the source file of every entry whose transfer is over,
\* succeeded or failed, still exists with the content it had when the walk
\* found it (unless another process deleted it), also when the entry lies in
\* the output directory and its destination is the file itself.
C6_CopyLeavesSource ==
    ~args.mv =>
        \A i \in DOMAIN outcomes :
            LET e == outcomes[i].entry
            IN  (outcomes[i].result \in {"Succeeded", "Failed"} /\ e \notin envDeleted)
                  => (e \in DOMAIN files /\ Now[e] = WalkedContent(e))

----------------------------------------------------------------------------
(* C7 *)

IsPrefix(s, u) == Len(s) <= Len(u) /\ SubSeq(u, 1, Len(s)) = s

\* C7: after a second run in copy mode from the same root into the same
\* output directory (no file being deleted by another process), every
\* destination path that existed after the first run is still present with
\* the same content.
C7_SecondCopyRunKeepsDestinations ==
    (run = 2 /\ Joined /\ ~args.mv /\ envDeleted = {}) =>
        \A p \in DOMAIN first_run :
            IsPrefix(out_dir_of(args), p)
              => (p \in DOMAIN files /\ Now[p] = first_run[p])

----------------------------------------------------------------------------
(* C8 *)

\* C8: with a maximum depth d the walk yields exactly the regular files at
\* depth at most d below the root, where d = 0 is the root directory only, so
\* that a file lying directly in the root has depth 0; with no bound it yields
\* every regular file.
C8_WalkYieldsFilesWithinDepth ==
    Walked =>
        entries = {p \in DOMAIN Unwrap(walked) :
                      IsSome(args.max_depth) => Len(p) - 1 <= Unwrap(args.max_depth)}

----------------------------------------------------------------------------
(* C9 *)

\* The subfolder as claimed: the category of the lowercased extension, else
\* the lowercased extension, else "unknown".
ClaimedSubfolder(e) ==
    LET ext == extension(file_name(e))
    IN  IF IsSome(ext)
        THEN LET category == get_category(to_lowercase(Unwrap(ext)), category_map)
             IN  IF IsSome(category) THEN Unwrap(category)
                 ELSE to_lowercase(Unwrap(ext))
        ELSE s_unknown

\* C9: the destination of every non-blacklisted entry a worker transfers is
\* <output_dir>/<subfolder>/<file name> with the subfolder the category name,
\* else the lowercased extension, else "unknown", and the file name as it is.
C9_DestinationLayout ==
    \A w \in Workers :
        wk[w].pc \in {"move_file", "copy_file", "remove_file", "fs_copy", "write"}
          => Dest(w) = out_dir_of(args)
                         \o << ClaimedSubfolder(Source(w)), file_name(Source(w)) >>

----------------------------------------------------------------------------
(* C10 *)

\* C10: when the summary is reported the run has ended with success status,
\* every entry has its outcome, and every entry whose transfer succeeded, and
\* that shares its destination with no other entry whose transfer succeeded,
\* is at its destination with its content, as it would be were the failing
\* entries absent (the destination not being a file another process deleted).
C10_FailuresLeaveOthersAlone ==
    summary # None =>
        /\ status = "Ok"
        /\ \A e \in entries : Len(OutcomesOf(e)) = 1
        /\ \A e \in WithResult("Succeeded") :
              ( /\ DestOf(e) \notin envDeleted
                /\ \A o \in WithResult("Succeeded") \ {e} : DestOf(o) # DestOf(e) )
                => (DestOf(e) \in DOMAIN files /\ Now[DestOf(e)] = WalkedContent(e))

----------------------------------------------------------------------------
(* C11 *)

\* The category document of --config can be read and is malformed.
MalformedConfig ==
    /\ IsSome(args.config)
    /\ Unwrap(args.config).readable
    /\ Unwrap(args.config).doc = None

\* The output directory cannot be created: the path, or a directory it lies
\* in, is a regular file.
OutDirBlocked == Prefixes(out_dir_of(args)) \cap DOMAIN files # {}

ConfigurationError ==
    args.threads = Some(0) \/ MalformedConfig \/ OutDirBlocked

FailureStatus == status \in {"exit(1)", "panic"}

\* No entry has been classified, copied or moved and no accumulator has been
\* changed.
NothingProcessed ==
    /\ \A w \in Workers : wk[w] = Idle
    /\ \A e \in DOMAIN calls : calls[e] = 0
    /\ outcomes = << >>
    /\ \A p \in DOMAIN files :
          files[p] = << "old", p >> /\ data[files[p]] = FileUniverse[p]
    /\ Walked => Now = Unwrap(walked)
    /\ skipped = 0 /\ errors = << >> /\ progress = 0

\* C11: a configuration error aborts the run before the dispatch begins: when
\* the worker count is zero, the category document is malformed or the output
\* directory cannot be created, the run that has ended has ended with a
\* failure status, the dispatch never begins, and no entry has been
\* classified, copied or moved and no accumulator has been changed.
C11_ConfigErrorAbortsBeforeDispatch ==
    /\ (pc = "exited" /\ ConfigurationError) => FailureStatus
    /\ DispatchBegun => ~ConfigurationError
    /\ FailureStatus => (~DispatchBegun /\ NothingProcessed)

----------------------------------------------------------------------------
(* C12 *)

\* The entries whose process_file call has returned.
Finished ==
    {e \in entries :
        /\ Len(OutcomesOf(e)) >= 1
        /\ \A w \in Workers : wk[w].entry = e => wk[w].pc \in {"progress", "idle"}}

\* The entries whose worker has gone on past progress.inc(1).
Advanced == {e \in Finished : \A w \in Workers : wk[w].entry # e}

\* C12: the progress bar is advanced by one exactly once for each entry,
\* after the entry's processing has completed, whatever its outcome: the
\* position is the number of entries whose worker has finished them and gone
\* on, at most the number of entries whose processing has finished, and after
\* for_each has returned it is the number of discovered entries.
C12_ProgressOncePerEntry ==
    DispatchBegun =>
        /\ progress = Cardinality(Advanced)
        /\ progress <= Cardinality(Finished)
        /\ Joined => progress = Cardinality(entries)

\* All workers have finished a run of two entries, one skipped and one whose
\* transfer failed, and the bar stands at two.
C12_Witness ==
    /\ Joined
    /\ progress = 2
    /\ Cardinality(WithResult("Skipped")) = 1
    /\ Cardinality(WithResult("Failed")) = 1

----------------------------------------------------------------------------
(* C13 *)

\* The extensions get_category is asked about, in several letter cases.
QueryExtensions ==
    {s_txt, << "T", "X", "T" >>, << "T", "x", "t" >>,
     << "a", "b", "c" >>, << "A", "B", "C" >>, << "m", "d" >>, << "M", "d" >>,
     << "t", "x" >>, << ".", "t", "x", "t" >>}

\* The categories of the map whose extensions hold the lowercased extension.
HoldersOf(ext) ==
    LET lowercased == to_lowercase(ext)
    IN  {c \in DOMAIN category_map.cats :
            \E i \in DOMAIN category_map.cats[c] :
                category_map.cats[c][i] = lowercased}

InTransfer(w) ==
    wk[w].pc \in {"move_file", "copy_file", "remove_file", "fs_copy", "write"}

\* C13: once the category map is loaded, get_category returns for an
\* extension in any letter case the one category that holds the lowercased
\* extension when exactly one does, and none when no category does; the map
\* stays what load_categories returned whatever the workers do, and every
\* worker files an entry whose extension one category holds under that
\* category.
C13_CategoryOfLowercasedExtension ==
    DispatchBegun =>
        /\ \A ext \in QueryExtensions :
              LET holders == HoldersOf(ext)
                  found   == get_category(ext, category_map)
              IN  /\ holders = {} => found = None
                  /\ \A c \in holders : holders = {c} => found = Some(c)
        /\ category_map.cats = load_categories(args.config).cats
        /\ \A w \in Workers :
              LET ext == extension(file_name(Source(w)))
                  holders == IF IsSome(ext) THEN HoldersOf(Unwrap(ext)) ELSE {}
              IN  InTransfer(w) =>
                     \A c \in holders :
                        holders = {c} =>
                           Dest(w) = << s_sorted, c, file_name(Source(w)) >>

\* Two workers are transferring a.txt and b.TXT at the same time under a
\* config file that lists ".TXT" for Text: both file under Text.
C13_Witness ==
    \E w, v \in Workers :
        /\ w # v
        /\ InTransfer(w) /\ InTransfer(v)
        /\ Source(w) = << << "a", ".", "t", "x", "t" >> >>
        /\ Source(v) = << << "b", ".", "T", "X", "T" >> >>
        /\ Dest(w) = << s_sorted, s_Text, file_name(Source(w)) >>
        /\ Dest(v) = << s_sorted, s_Text, file_name(Source(v)) >>

----------------------------------------------------------------------------
(* C14 *)

ConfigWarnings ==
    {i \in DOMAIN warnings : warnings[i] = "Failed to read config file"}

\* The categories of a document as the map holds them: every extension
\* without its leading dots and lowercased.
Normalized(doc) ==
    [k \in DOMAIN doc |->
        [i \in DOMAIN doc[k] |-> to_lowercase(trim_start_matches_dot(doc[k][i]))]]

----------------------------------------------------------------------------
(* C15 *)

\* The entry has an extension whose lowercased form is in the blacklist.
Blacklisted(e) ==
    LET ext == extension(file_name(e))
    IN  IsSome(ext) /\ to_lowercase(Unwrap(ext)) \in blacklist

\* The step is one of worker w's processing of entry e.
StepOn(w, e) ==
    /\ w \in DOMAIN wk'
    /\ wk'[w] # wk[w]
    /\ e = IF wk[w].entry # NoEntry THEN wk[w].entry ELSE wk'[w].entry

\* C15: processing a blacklisted entry changes nothing but the skip counter
\* and the progress count: no step of a worker on an entry whose extension is
\* blacklisted changes the source file, the destination tree (no subfolder
\* created, no file written or removed) or the error log.
C15_SkipChangesOnlyCounters ==
    [][ \A w \in Workers : \A e \in entries :
           (StepOn(w, e) /\ Blacklisted(e)) =>
               UNCHANGED << files, data, dirs, errors >> ]_vars

----------------------------------------------------------------------------
(* C16 *)

\* load_blacklist has returned the set.
BlacklistLoaded == pc = "collect_files" \/ Walked

\* C16: the blacklist load_blacklist builds is the union of what the inline
\* argument alone and the blacklist file alone give, and every element of it
\* is lowercase, has no leading dot and is not the empty string, also for
\* tokens such as "." and "..txt".
C16_BlacklistNormalized ==
    BlacklistLoaded =>
        /\ blacklist =
              load_blacklist([args EXCEPT !.blacklist_file = None]).set
                \cup load_blacklist([args EXCEPT !.blacklist = None]).set
        /\ \A ext \in blacklist :
              /\ ext # << >>
              /\ ~starts_with(ext, ".")
              /\ to_lowercase(ext) = ext

----------------------------------------------------------------------------
(* C17 *)

\* C17: in every step of the run the skipped count does not decrease and the
\* error list is a prefix of the error list after the step; the summary is
\* made, from the count and the list as they then are, only when every entry
\* has been handed out and every worker is back; and once the dispatch has
\* begun no step changes the blacklist or the category map.
C17_AccumulatorsOnlyGrow ==
    [][ /\ skipped' >= skipped
        /\ IsPrefix(errors, errors')
        /\ summary' # summary =>
              /\ pending = {}
              /\ \A w \in Workers : wk[w].pc = "idle"
              /\ \A e \in entries : Len(OutcomesOf(e)) = 1
              /\ Unwrap(summary').skipped = skipped
              /\ Unwrap(summary').errors = errors
        /\ DispatchBegun =>
              (blacklist' = blacklist /\ category_map' = category_map) ]_vars

\* A verbose run of two entries whose transfers both failed has its summary:
\* the error list grew twice.
C17_Witness ==
    /\ summary # None
    /\ Len(errors) = 2
    /\ Len(Unwrap(summary).errors) = 2

----------------------------------------------------------------------------
(* C18 *)

\* Before the walk nothing has been transferred; after it the entry list is
\* the set found, only entries of the list are dispatched, every one of them
\* once for_each has returned, and a path that came to be during the run is
\* not an entry.
FrozenWalk(found) ==
    /\ ~Walked =>
          /\ pc \in {"setup_thread_pool", "get_blacklist", "collect_files", "exited"}
          /\ entries = {}
          /\ \A w \in Workers : wk[w] = Idle
          /\ \A p \in DOMAIN files : files[p] = << "old", p >>
    /\ Walked =>
          /\ entries = found
          /\ \A p \in DOMAIN files : p \notin DOMAIN Unwrap(walked) => p \notin entries
    /\ DispatchBegun =>
          /\ DOMAIN calls = entries
          /\ pending \subseteq entries
          /\ \A w \in Workers : wk[w].entry # NoEntry => wk[w].entry \in entries
          /\ \A i \in DOMAIN outcomes : outcomes[i].entry \in entries
    /\ Joined => {e \in DOMAIN calls : calls[e] = 1} = entries

=============================================================================
